---- MODULE Spec2Model ----
(***************************************************************************)
(* A model of the conversational-banking backend (app/backend):            *)
(*   data.py      the in-memory DataStore, its loader and its queries      *)
(*   handlers.py  the intent handlers over the DataStore                   *)
(*   nlu.py       the ChatBot dialogue (start_convo / continue_convo)      *)
(* Text is modelled as sequences of one-character strings so that          *)
(* lower(), strip(), title() and substring search are computed, not        *)
(* assumed.  Timestamps are integer ticks, TicksPerDay ticks to a day.     *)
(***************************************************************************)
EXTENDS Integers, Sequences, FiniteSets, TLC

VARIABLES
    cache,      \* lru_cache slot of get_data_store: None or Some(instance id)
    loads,      \* number of executions of DataStore.from_directory so far
    thr,        \* per thread: position inside get_data_store and its results
    csv,        \* the data directory: the rows of the four CSV files
    store,      \* the DataStore instance (NoStore before from_directory)
    resp,       \* the request in flight: NoResp, or the outcome of the call
    chat_history, \* ChatBot.chat_history
    end_convo,    \* ChatBot.end_convo
    convo,        \* intent_js of the conversation the last start_convo began
    chat_out,     \* outcome of the last ChatBot call
    speech,       \* the last /stt, /tts or /assist request: provider calls, outcome
    fs,           \* the DATA_DIR variable and which candidate directories exist
    data_dir      \* outcome of default_data_directory()

vars == <<cache, loads, thr, csv, store, resp,
          chat_history, end_convo, convo, chat_out, speech, fs, data_dir>>

cacheVars == <<cache, loads, thr>>
storeVars == <<csv, store, resp>>
chatVars  == <<chat_history, end_convo, convo, chat_out>>
edgeVars  == <<speech, fs, data_dir>>

\* A missing identifier cell (pandas' NaN in a text column).
NULL == "<null>"

\* Optional values (Python's None, pandas' NaN and NaT in typed columns).
None == <<>>
Some(v) == <<v>>
Val(o) == o[1]

\* No DataStore built yet; no request in flight.
NoStore == [unloaded |-> TRUE]
NoResp == [op |-> "none"]

-----------------------------------------------------------------------------
(* Text *)

ToLower ==
    [A |-> "a", B |-> "b", C |-> "c", D |-> "d", E |-> "e", F |-> "f",
     G |-> "g", H |-> "h", I |-> "i", J |-> "j", K |-> "k", L |-> "l",
     M |-> "m", N |-> "n", O |-> "o", P |-> "p", Q |-> "q", R |-> "r",
     S |-> "s", T |-> "t", U |-> "u", V |-> "v", W |-> "w", X |-> "x",
     Y |-> "y", Z |-> "z"]

ToUpper ==
    [a |-> "A", b |-> "B", c |-> "C", d |-> "D", e |-> "E", f |-> "F",
     g |-> "G", h |-> "H", i |-> "I", j |-> "J", k |-> "K", l |-> "L",
     m |-> "M", n |-> "N", o |-> "O", p |-> "P", q |-> "Q", r |-> "R",
     s |-> "S", t |-> "T", u |-> "U", v |-> "V", w |-> "W", x |-> "X",
     y |-> "Y", z |-> "Z"]

LowerChar(c) == IF c \in DOMAIN ToLower THEN ToLower[c] ELSE c
UpperChar(c) == IF c \in DOMAIN ToUpper THEN ToUpper[c] ELSE c
IsAlpha(c) == c \in DOMAIN ToLower \/ c \in DOMAIN ToUpper

\* str.lower()
Lower(s) == [i \in 1..Len(s) |-> LowerChar(s[i])]

\* str.title(): a letter that follows a non-letter is upper-cased, every
\* other letter lower-cased.
Title(s) ==
    [i \in 1..Len(s) |->
        IF i = 1 \/ ~IsAlpha(s[i - 1]) THEN UpperChar(s[i]) ELSE LowerChar(s[i])]

\* str.strip(): leading and trailing blanks removed.
Strip(s) ==
    LET nonblank == {i \in 1..Len(s) : s[i] # " "}
    IN  IF nonblank = {} THEN <<>>
        ELSE LET lo == CHOOSE i \in nonblank : \A j \in nonblank : i <= j
                 hi == CHOOSE i \in nonblank : \A j \in nonblank : j <= i
             IN  SubSeq(s, lo, hi)

\* `sub in s` / Series.str.contains(sub) for a pattern of plain letters.
Contains(s, sub) ==
    \E i \in 1..(Len(s) - Len(sub) + 1) : SubSeq(s, i, i + Len(sub) - 1) = sub

-----------------------------------------------------------------------------
(* get_data_store: functools.lru_cache(maxsize=1) around from_directory *)

NumThreads == 3
MaxCalls == 2

Threads == 1..NumThreads

InitCache ==
    /\ cache = None
    /\ loads = 0
    /\ thr = [t \in Threads |->
                [pc |-> "idle", result |-> None, got |-> None, ncalls |-> 0]]

\* The wrapper looks the (empty) key up.  A hit returns the cached instance;
\* a miss leaves the wrapper to call the wrapped function.
lru_lookup(t) ==
    /\ thr[t].pc = "idle"
    /\ thr[t].ncalls < MaxCalls
    /\ IF cache # None
       THEN thr' = [thr EXCEPT ![t].got = cache, ![t].ncalls = @ + 1]
       ELSE thr' = [thr EXCEPT ![t].pc = "calling", ![t].ncalls = @ + 1]
    /\ UNCHANGED <<cache, loads, storeVars, chatVars, edgeVars>>

\* The wrapped get_data_store body runs: DataStore.from_directory(DATA_DIR)
\* reads the files (other threads run meanwhile) and builds a new instance.
get_data_store_body(t) ==
    /\ thr[t].pc = "calling"
    /\ loads' = loads + 1
    /\ thr' = [thr EXCEPT ![t].pc = "computed", ![t].result = Some(loads + 1)]
    /\ UNCHANGED <<cache, storeVars, chatVars, edgeVars>>

\* Back in the wrapper: the result is stored unless the key was added during
\* the call; either way the caller gets the result it computed itself.
lru_store(t) ==
    /\ thr[t].pc = "computed"
    /\ cache' = IF cache = None THEN thr[t].result ELSE cache
    /\ thr' = [thr EXCEPT ![t].pc = "idle", ![t].got = thr[t].result,
                           ![t].result = None]
    /\ UNCHANGED <<loads, storeVars, chatVars, edgeVars>>

-----------------------------------------------------------------------------
(* The data directory *)

TicksPerDay == 2
MaxCustomers == 2
MaxProducts == 2
MaxClosed == 1
MaxTx == 3

\* data.py:16 and data.py:21, as text.
ACCOUNT_TYPE_KEYWORDS ==
    << [account_type |-> "current",
        keywords |-> << <<"c","u","r","r","e","n","t">>,
                        <<"c","h","e","c","k","i","n","g">>,
                        <<"z","i","c","h","t">>,
                        <<"l","i","o","n">> >>],
       [account_type |-> "savings",
        keywords |-> << <<"s","a","v","i","n","g">>,
                        <<"s","p","a","a","r">>,
                        <<"o","r","a","n","g","e">> >>] >>

CARD_KEYWORDS ==
    << <<"c","a","r","d">>, <<"v","i","s","a">>,
       <<"m","a","s","t","e","r","c","a","r","d">>,
       <<"c","r","e","d","i","t">>, <<"d","e","b","i","t">> >>

CLOSED == <<"c","l","o","s","e","d">>
CREDIT == <<"c","r","e","d","i","t">>

\* Rows that customers.csv may hold.  A blank customer_id is read as NaN; a
\* birthdate carries a time of day until it is normalized.
CustomerPool ==
    << [customer_id |-> "C1", name |-> Some(<<" ","J","o","E">>),
        birthdate |-> Some(10 * TicksPerDay)],
       [customer_id |-> "C2", name |-> Some(<<"j","o","e"," ">>),
        birthdate |-> Some(10 * TicksPerDay + 1)],
       [customer_id |-> "C3", name |-> Some(<<"J","o","e">>),
        birthdate |-> Some(11 * TicksPerDay)],
       [customer_id |-> NULL, name |-> Some(<<"A","l">>),
        birthdate |-> None],
       [customer_id |-> "C4", name |-> None,
        birthdate |-> Some(10 * TicksPerDay)] >>

\* Rows that products.csv may hold.
ProductPool ==
    << [product_id |-> "P1", customer_id |-> "C1", product_name |-> "Lion Account",
        product_type |-> <<"C","u","r","r","e","n","t">>,
        status |-> <<"A","c","t","i","v","e">>],
       [product_id |-> "P2", customer_id |-> "C1", product_name |-> "Spaarrekening",
        product_type |-> <<"S","P","A","A","R">>,
        status |-> <<"C","l","o","s","e","d">>],
       [product_id |-> "P3", customer_id |-> "C1", product_name |-> "Visa Classic",
        product_type |-> <<"V","i","s","a">>,
        status |-> <<"A","c","t","i","v","e">>],
       [product_id |-> "P4", customer_id |-> "C2", product_name |-> "Home Loan",
        product_type |-> <<"L","o","a","n">>,
        status |-> <<"A","c","t","i","v","e">>],
       [product_id |-> "P5", customer_id |-> "C1", product_name |-> "Orange Book",
        product_type |-> <<"L","i","o","n"," ","S","a","v","i","n","g">>,
        status |-> <<"U","N","C","L","O","S","E","D">>],
       [product_id |-> "P6", customer_id |-> NULL, product_name |-> "Debit Card",
        product_type |-> <<"D","e","b","i","t"," ","C","A","R","D">>,
        status |-> <<"A","c","t","i","v","e">>],
       [product_id |-> "P0", customer_id |-> "C1", product_name |-> "Zicht",
        product_type |-> <<"Z","i","c","h","t">>,
        status |-> <<"o","p","e","n">>] >>

\* Rows that products_closed.csv may hold: a closed product, the open
\* product P1 listed again under another customer, P1 listed again as is, and
\* P1 listed again with the status it has once closed.
ClosedPool ==
    << [product_id |-> "P7", customer_id |-> "C1", product_name |-> "Old Savings",
        product_type |-> <<"S","a","v","i","n","g">>,
        status |-> <<"C","l","o","s","e","d">>],
       [product_id |-> "P1", customer_id |-> "C2", product_name |-> "Lion Account",
        product_type |-> <<"C","u","r","r","e","n","t">>,
        status |-> <<"C","l","o","s","e","d">>],
       ProductPool[1],
       [ProductPool[1] EXCEPT !.status = <<"C","l","o","s","e","d">>] >>

\* Rows that transactions.csv may hold.  amount is the parsed number, or None
\* for a cell pandas.to_numeric cannot parse; P9 is in no products table.
TxPool ==
    << [transaction_id |-> "T1", product_id |-> "P1", date |-> TicksPerDay,
        amount |-> Some(100),
        transaction_type |-> <<"c","r","e","d","i","t">>,
        description |-> Some(<<"S","h","o","p">>)],
       [transaction_id |-> "T2", product_id |-> "P1", date |-> TicksPerDay,
        amount |-> Some(40),
        transaction_type |-> <<"D","E","B","I","T">>,
        description |-> Some(<<"C","a","f","e">>)],
       [transaction_id |-> "T3", product_id |-> "P1", date |-> 2 * TicksPerDay + 1,
        amount |-> None,
        transaction_type |-> <<"C","r","e","d","i","t">>,
        description |-> None],
       [transaction_id |-> "T4", product_id |-> "P4", date |-> 2 * TicksPerDay,
        amount |-> Some(-5),
        transaction_type |-> <<"r","e","f","u","n","d">>,
        description |-> Some(<<"s","h","o","p">>)],
       [transaction_id |-> "T5", product_id |-> "P9", date |-> TicksPerDay + 1,
        amount |-> Some(7),
        transaction_type |-> <<"C","R","E","D","I","T">>,
        description |-> Some(<<"S","H","O","P">>)] >>

\* The files of at most max rows whose rows come from pool, in pool order.
RECURSIVE SubSeqs(_, _)
SubSeqs(pool, max) ==
    IF pool = <<>> \/ max = 0 THEN {<<>>}
    ELSE SubSeqs(Tail(pool), max)
         \cup {<<Head(pool)>> \o f : f \in SubSeqs(Tail(pool), max - 1)}

\* The files of at most max distinct rows of pool, in any order.
RECURSIVE Arrangements(_, _)
Arrangements(rows, max) ==
    IF max = 0 THEN {<<>>}
    ELSE {<<>>} \cup UNION {{<<r>> \o f : f \in Arrangements(rows \ {r}, max - 1)}
                            : r \in rows}

Range(f) == {f[i] : i \in DOMAIN f}

CustomerFiles == SubSeqs(CustomerPool, MaxCustomers)
ProductFiles  == {Some(f) : f \in SubSeqs(ProductPool, MaxProducts)}
\* products_closed.csv may be absent (None).
ClosedFiles   == {Some(f) : f \in SubSeqs(ClosedPool, MaxClosed)} \cup {None}
TxFiles       == Arrangements(Range(TxPool), MaxTx)

\* The directory the other tables are varied around.
BaseDir ==
    [customers |-> <<CustomerPool[1], CustomerPool[2]>>,
     products |-> Some(<<ProductPool[1], ProductPool[3], ProductPool[4]>>),
     products_closed |-> Some(<<ClosedPool[1]>>),
     transactions |-> <<TxPool[3], TxPool[2], TxPool[1], TxPool[4]>>]


-----------------------------------------------------------------------------
(* DataStore.from_directory and the loaders *)

\* Series.astype(str): a missing value becomes the text "nan".
AsTypeStr(v) == IF v = NULL THEN "nan" ELSE v

\* Timestamp.normalize(): the time of day is dropped; NaT stays NaT.
Normalize(t) == IF t = None THEN None ELSE Some(Val(t) - (Val(t) % TicksPerDay))

\* Python's order on the identifier strings that occur (code-point order).
StrOrder ==
    <<"C1", "C2", "C3", "C4", "C9", "P0", "P1", "P2", "P3", "P4", "P5", "P6",
      "P7", "P9", "T1", "T2", "T3", "T4", "T5", "nan">>

StrRank(s) == CHOOSE i \in DOMAIN StrOrder : StrOrder[i] = s
StrLess(a, b) == StrRank(a) < StrRank(b)

RECURSIVE DropDuplicates(_)
\* DataFrame.drop_duplicates(): the first occurrence of each row is kept.
DropDuplicates(rows) ==
    IF rows = <<>> THEN <<>>
    ELSE LET front == DropDuplicates(SubSeq(rows, 1, Len(rows) - 1))
             last == rows[Len(rows)]
         IN  IF last \in Range(front) THEN front ELSE Append(front, last)

RECURSIVE Sum(_)
Sum(ns) == IF ns = <<>> THEN 0 ELSE Head(ns) + Sum(Tail(ns))

_load_customers(file) ==
    [i \in DOMAIN file |->
        [customer_id |-> AsTypeStr(file[i].customer_id),
         name |-> file[i].name,
         birthdate |-> Normalize(file[i].birthdate)]]

\* path is None when the file does not exist, else Some(its rows).
_load_products(path, allow_missing) ==
    IF allow_missing /\ path = None THEN <<>>
    ELSE [i \in DOMAIN Val(path) |->
            [Val(path)[i] EXCEPT !.product_id = AsTypeStr(@),
                                 !.customer_id = AsTypeStr(@)]]

\* data.py:150-155: the amount counts positive for a Credit row and negative
\* for every other type.
amount_signed(row) ==
    IF Lower(row.transaction_type) = CREDIT THEN row.amount ELSE 0 - row.amount

RECURSIVE MergeLeft(_, _)
\* df.merge(all_products, on="product_id", how="left"): one output row per
\* matching right row, in left order; a left row without a match is kept once
\* with a missing customer_id.
MergeLeft(df, right) ==
    IF df = <<>> THEN <<>>
    ELSE LET row == Head(df)
             hits == SelectSeq(right, LAMBDA p : p.product_id = row.product_id)
             out == IF hits = <<>>
                    THEN <<row @@ [customer_id |-> NULL]>>
                    ELSE [i \in DOMAIN hits |->
                            row @@ [customer_id |-> hits[i].customer_id]]
         IN  out \o MergeLeft(Tail(df), right)

\* The sort key of data.py:170, compared lexicographically.
LedgerLess(a, b) ==
    \/ StrLess(a.product_id, b.product_id)
    \/ /\ a.product_id = b.product_id
       /\ \/ a.date < b.date
          \/ a.date = b.date /\ StrLess(a.transaction_id, b.transaction_id)

RECURSIVE InsertLedger(_, _)
InsertLedger(sorted, row) ==
    IF sorted = <<>> THEN <<row>>
    ELSE IF LedgerLess(row, Head(sorted)) THEN <<row>> \o sorted
    ELSE <<Head(sorted)>> \o InsertLedger(Tail(sorted), row)

RECURSIVE SortLedger(_)
\* df.sort_values(["product_id", "date", "transaction_id"]): a stable sort.
SortLedger(df) ==
    IF df = <<>> THEN <<>>
    ELSE InsertLedger(SortLedger(SubSeq(df, 1, Len(df) - 1)), df[Len(df)])

RECURSIVE CumSum(_, _)
\* df["amount_signed"].cumsum(): the running total over all rows, whatever
\* their product.  balance_after would be this without the groupby.
CumSum(df, acc) ==
    IF df = <<>> THEN <<>>
    ELSE LET after == (IF "*" \in DOMAIN acc THEN acc["*"] ELSE 0)
                      + Head(df).amount_signed
         IN  <<Head(df) @@ [balance_after |-> after]>>
             \o CumSum(Tail(df), "*" :> after)

RECURSIVE GroupCumSum(_, _)
\* df.groupby("product_id")["amount_signed"].cumsum(), rows in frame order;
\* acc holds the running total of each product seen so far.
GroupCumSum(df, acc) ==
    IF df = <<>> THEN <<>>
    ELSE LET row == Head(df)
             before == IF row.product_id \in DOMAIN acc
                       THEN acc[row.product_id] ELSE 0
             after == before + row.amount_signed
         IN  <<row @@ [balance_after |-> after]>>
             \o GroupCumSum(Tail(df), (row.product_id :> after) @@ acc)

\* transactions.groupby("product_id")["amount_signed"].sum().to_dict()
GroupSum(df) ==
    [p \in {df[i].product_id : i \in DOMAIN df} |->
        Sum([i \in DOMAIN SelectSeq(df, LAMBDA r : r.product_id = p) |->
                SelectSeq(df, LAMBDA r : r.product_id = p)[i].amount_signed])]

_load_transactions(file, products, products_closed) ==
    LET parsed ==
            [i \in DOMAIN file |->
                [transaction_id |-> file[i].transaction_id,
                 product_id |-> AsTypeStr(file[i].product_id),
                 date |-> file[i].date,
                 description |-> file[i].description,
                 transaction_type |-> Title(file[i].transaction_type),
                 amount |-> IF file[i].amount = None THEN 0
                            ELSE Val(file[i].amount)]]
        signed == [i \in DOMAIN parsed |->
                      parsed[i] @@ [amount_signed |-> amount_signed(parsed[i])]]
        concat == products \o products_closed
        all_products ==
            DropDuplicates([i \in DOMAIN concat |->
                [product_id |-> concat[i].product_id,
                 customer_id |-> concat[i].customer_id]])
        merged == MergeLeft(signed, all_products)
        typed == [i \in DOMAIN merged |->
                    [merged[i] EXCEPT !.customer_id = AsTypeStr(@)]
                    @@ [normalized_merchant |->
                          IF merged[i].description = None THEN <<>>
                          ELSE Lower(Val(merged[i].description))]]
    IN  GroupCumSum(SortLedger(typed), <<>>)

from_directory(dir) ==
    LET customers == _load_customers(dir.customers)
        products == _load_products(dir.products, FALSE)
        products_closed == _load_products(dir.products_closed, TRUE)
        transactions == _load_transactions(dir.transactions, products,
                                           products_closed)
    IN  [customers |-> customers,
         products |-> products,
         products_closed |-> products_closed,
         transactions |-> transactions,
         product_balances |-> GroupSum(transactions)]


-----------------------------------------------------------------------------
(* DataStore queries.  Each returns what the Python call produces: Ok(value) *)
(* for a returned value, Raise(error) for an exception of that class.         *)

Ok(v) == [kind |-> "ok", value |-> v]
Raise(e) == [kind |-> "raise", error |-> e]

\* Code-point order of the characters that occur in text.
CharOrder ==
    <<" ", "@", "A", "B", "C", "D", "E", "F", "G", "H", "I", "J", "K", "L", "M",
      "N", "O", "P", "Q", "R", "S", "T", "U", "V", "W", "X", "Y", "Z",
      "a", "b", "c", "d", "e", "f", "g", "h", "i", "j", "k", "l", "m",
      "n", "o", "p", "q", "r", "s", "t", "u", "v", "w", "x", "y", "z">>

CharRank(c) == CHOOSE i \in DOMAIN CharOrder : CharOrder[i] = c

RECURSIVE TextLess(_, _)
\* Python's < on str: lexicographic by code point, a proper prefix first.
TextLess(a, b) ==
    IF b = <<>> THEN FALSE
    ELSE IF a = <<>> THEN TRUE
    ELSE IF Head(a) # Head(b) THEN CharRank(Head(a)) < CharRank(Head(b))
    ELSE TextLess(Tail(a), Tail(b))

\* customer_id in self.customers.index
InIndex(st, customer_id) ==
    \E i \in DOMAIN st.customers : st.customers[i].customer_id = customer_id

ensure_customer_exists(st, customer_id) ==
    IF ~InIndex(st, customer_id) THEN Raise("ValueError") ELSE Ok(None)

\* Identity lookup that settles for the first matching row: what
\* find_customer_by_identity would do without the check of data.py:202-205.
FirstMatchByIdentity(st, name, birthdate) ==
    LET row_name(c) == IF c.name = None THEN <<>> ELSE Lower(Strip(Val(c.name)))
        matches == SelectSeq(st.customers,
                             LAMBDA c : /\ row_name(c) = Lower(Strip(name))
                                        /\ Normalize(c.birthdate)
                                              = Normalize(Some(birthdate)))
    IN  IF matches = <<>> THEN Raise("CustomerNotFoundError")
        ELSE Ok(matches[1].customer_id)

find_customer_by_identity(st, name, birthdate) ==
    LET normalized_name == Lower(Strip(name))
        birthdate_ts == Normalize(Some(birthdate))
        row_name(c) == IF c.name = None THEN <<>> ELSE Lower(Strip(Val(c.name)))
        matches == SelectSeq(st.customers,
                             LAMBDA c : /\ row_name(c) = normalized_name
                                        /\ Normalize(c.birthdate) = birthdate_ts)
    IN  IF matches = <<>> THEN Raise("CustomerNotFoundError")
        ELSE IF Len(matches) > 1 THEN Raise("CustomerAmbiguousError")
        ELSE Ok(matches[1].customer_id)

RECURSIVE FirstAccountType(_, _)
FirstAccountType(table, product_type_lower) ==
    IF table = <<>> THEN None
    ELSE IF \E k \in DOMAIN Head(table).keywords :
                Contains(product_type_lower, Head(table).keywords[k])
         THEN Some(Head(table).account_type)
         ELSE FirstAccountType(Tail(table), product_type_lower)

infer_account_type(product_type) ==
    FirstAccountType(ACCOUNT_TYPE_KEYWORDS, Lower(product_type))

\* The customer's products with the status compared as written, without
\* .str.lower(): what data.py:223 would keep if it were case-sensitive.
ActiveAccountsCaseSensitive(st, customer_id, account_type) ==
    LET owned == SelectSeq(st.products, LAMBDA r : r.customer_id = customer_id)
        typed == [i \in DOMAIN owned |->
                    owned[i] @@ [account_type |->
                                    infer_account_type(owned[i].product_type)]]
        open == SelectSeq(typed, LAMBDA r : ~Contains(r.status, CLOSED))
        wanted == IF account_type # None
                  THEN SelectSeq(open, LAMBDA r : r.account_type = account_type)
                  ELSE open
    IN  IF ~InIndex(st, customer_id) THEN Raise("ValueError")
        ELSE Ok(SelectSeq(wanted, LAMBDA r : r.account_type # None))

\* account_type is None, or Some("current") / Some("savings").
list_active_accounts(st, customer_id, account_type) ==
    IF ensure_customer_exists(st, customer_id).kind = "raise"
    THEN ensure_customer_exists(st, customer_id)
    ELSE
    LET owned == SelectSeq(st.products, LAMBDA r : r.customer_id = customer_id)
        typed == [i \in DOMAIN owned |->
                    owned[i] @@ [account_type |->
                                    infer_account_type(owned[i].product_type)]]
        open == SelectSeq(typed, LAMBDA r : ~Contains(Lower(r.status), CLOSED))
        wanted == IF account_type # None
                  THEN SelectSeq(open, LAMBDA r : r.account_type = account_type)
                  ELSE open
    IN  IF owned = <<>> THEN Ok(owned)
        ELSE Ok(SelectSeq(wanted, LAMBDA r : r.account_type # None))

ProductLess(a, b) ==
    \/ TextLess(a.product_type, b.product_type)
    \/ a.product_type = b.product_type /\ StrLess(a.product_id, b.product_id)

RECURSIVE InsertProduct(_, _)
InsertProduct(sorted, row) ==
    IF sorted = <<>> THEN <<row>>
    ELSE IF ProductLess(row, Head(sorted)) THEN <<row>> \o sorted
    ELSE <<Head(sorted)>> \o InsertProduct(Tail(sorted), row)

RECURSIVE SortProducts(_)
\* df.sort_values(["product_type", "product_id"])
SortProducts(df) ==
    IF df = <<>> THEN <<>>
    ELSE InsertProduct(SortProducts(SubSeq(df, 1, Len(df) - 1)), df[Len(df)])

list_all_products(st, customer_id) ==
    IF ensure_customer_exists(st, customer_id).kind = "raise"
    THEN ensure_customer_exists(st, customer_id)
    ELSE
    LET combined == st.products \o st.products_closed
        filtered == SelectSeq(combined, LAMBDA r : r.customer_id = customer_id)
        columns == [i \in DOMAIN filtered |->
                      [product_id |-> filtered[i].product_id,
                       product_type |-> filtered[i].product_type,
                       product_name |-> filtered[i].product_name,
                       status |-> filtered[i].status]]
    IN  IF combined = <<>> \/ filtered = <<>> THEN Ok(<<>>)
        ELSE Ok(SortProducts(DropDuplicates(columns)))

get_balance(st, product_id) ==
    IF product_id \in DOMAIN st.product_balances
    THEN st.product_balances[product_id] ELSE 0

\* Every product of the customer, whatever its type: list_card_products
\* without the keyword test.
ListOwnedProducts(st, customer_id) ==
    IF ensure_customer_exists(st, customer_id).kind = "raise"
    THEN ensure_customer_exists(st, customer_id)
    ELSE Ok(SelectSeq(st.products, LAMBDA r : r.customer_id = customer_id))

list_card_products(st, customer_id) ==
    IF ensure_customer_exists(st, customer_id).kind = "raise"
    THEN ensure_customer_exists(st, customer_id)
    ELSE
    LET owned == SelectSeq(st.products, LAMBDA r : r.customer_id = customer_id)
        is_card(r) == \E k \in DOMAIN CARD_KEYWORDS :
                         Contains(Lower(r.product_type), CARD_KEYWORDS[k])
    IN  Ok(SelectSeq(owned, is_card))

\* The keys of the dict get_customer_snapshot returns; the model keeps the
\* values of customer_id and name only.
SnapshotKeys ==
    {"customer_id", "name", "email", "phone", "address", "segment_code"}

get_customer_snapshot(st, customer_id) ==
    IF ensure_customer_exists(st, customer_id).kind = "raise"
    THEN ensure_customer_exists(st, customer_id)
    ELSE
    LET record == SelectSeq(st.customers,
                            LAMBDA c : c.customer_id = customer_id)[1]
    IN  Ok([customer_id |-> customer_id, name |-> record.name,
            keys |-> SnapshotKeys])


\* The customer's rows strictly inside the bounds: what data.py:283-287 would
\* keep with > and < in place of >= and <=.
FilterRowsExclusive(st, customer_id, merchant, date_from, date_to, min_amount) ==
    LET Abs(x) == IF x < 0 THEN 0 - x ELSE x
        keep(r) ==
            /\ r.customer_id = customer_id
            /\ (merchant # None /\ Val(merchant) # <<>>) =>
                  Contains(r.normalized_merchant, Lower(Val(merchant)))
            /\ date_from # None => r.date > Val(date_from)
            /\ date_to # None => r.date < Val(date_to)
            /\ min_amount # None => Abs(r.amount) > Val(min_amount)
    IN  SelectSeq(st.transactions, keep)

\* The rows filter_transactions keeps, in ledger order (data.py:277-287).
\* merchant, date_from, date_to and min_amount are None or Some(value).
FilterRows(st, customer_id, merchant, date_from, date_to, min_amount) ==
    LET Abs(x) == IF x < 0 THEN 0 - x ELSE x
        Truthy(text) == text # None /\ Val(text) # <<>>
        keep(r) ==
            /\ r.customer_id = customer_id
            /\ Truthy(merchant) =>
                  Contains(r.normalized_merchant, Lower(Val(merchant)))
            /\ date_from # None => r.date >= Val(date_from)
            /\ date_to # None => r.date <= Val(date_to)
            /\ min_amount # None => Abs(r.amount) >= Val(min_amount)
    IN  SelectSeq(st.transactions, keep)

\* df.sort_values("date", ascending=False): the rows by date, latest first;
\* the default sort is not stable, so rows of equal date come in any order.
SortValuesDateDesc(df) ==
    LET perms == {p \in [DOMAIN df -> DOMAIN df] :
                    \A i, j \in DOMAIN df : i # j => p[i] # p[j]}
    IN  {[i \in DOMAIN df |-> df[p[i]]] :
            p \in {q \in perms :
                     \A i, j \in DOMAIN df :
                        i < j => df[q[i]].date >= df[q[j]].date}}

\* df.head(n)
HeadRows(df, n) == SubSeq(df, 1, IF n < Len(df) THEN n ELSE Len(df))

\* The query with df.head(n) taken before the sort: the first n matching rows
\* of the ledger, then ordered by date.
HeadThenSort(st, customer_id, merchant, n, date_from, date_to, min_amount) ==
    IF ensure_customer_exists(st, customer_id).kind = "raise"
    THEN {ensure_customer_exists(st, customer_id)}
    ELSE LET rows == FilterRows(st, customer_id, merchant, date_from, date_to,
                                min_amount)
         IN  {Ok(df) : df \in SortValuesDateDesc(
                                 IF n # None THEN HeadRows(rows, Val(n))
                                 ELSE rows)}

\* The outcomes filter_transactions can produce (one per order of the ties).
filter_transactions(st, customer_id, merchant, n, date_from, date_to, min_amount) ==
    IF ensure_customer_exists(st, customer_id).kind = "raise"
    THEN {ensure_customer_exists(st, customer_id)}
    ELSE {Ok(IF n # None THEN HeadRows(df, Val(n)) ELSE df) :
            df \in SortValuesDateDesc(
                      FilterRows(st, customer_id, merchant, date_from,
                                 date_to, min_amount))}


-----------------------------------------------------------------------------
(* Requests.  A request runs to completion against the loaded store and      *)
(* leaves its outcome in resp; Return hands the outcome to the caller.       *)

MaxN == 2
MaxToday == 1

\* HTTPException(status_code=...)
Http(status_code) == [kind |-> "http", status |-> status_code]

\* Request inputs.  C9 is the id of no customer.
CustomerIds == {"C1", "C2", "C4", "nan", "C9"}
NameArgs == {<<"J","O","E">>, <<" ","j","o","e">>, <<"a","l">>}
BirthDays == {10, 11}
AccountTypeArgs == {None, Some("current"), Some("savings")}
MerchantArgs == {None, Some(<<"S","h">>)}
NArgs == {None} \cup {Some(k) : k \in 1..MaxN}
DayArgs == {None, Some(1), Some(2)}
DateArgs == {None, Some(TicksPerDay), Some(2 * TicksPerDay)}
AmountArgs == {None, Some(5)}
EmailArgs == {None, Some(<<>>), Some(<<"a","@","b">>)}
PhoneArgs == {None, Some(<<"h","o","m","e">>)}
AddressArgs == {None, Some(<<"G","e","n","t">>)}
CardActions == {"block", "unblock"}
Uuids == {"0A1B2C3D", "9F8E7D6C"}
Today == 0..MaxToday
\* The slot of a request is a text; the last one names 10:00 of day 1 without
\* the seconds that isoformat() writes.
SlotArgs ==
    {None} \cup {Some([day |-> d, hour |-> h]) :
                    d \in 1..(MaxToday + 4), h \in {10, 12}}
           \cup {Some([day |-> 1, hour |-> 10, seconds |-> FALSE])}

Ready == store # NoStore /\ resp = NoResp

Reply(op, args, out) ==
    /\ resp' = [op |-> op, args |-> args, out |-> out]
    /\ UNCHANGED <<csv, store, cacheVars, chatVars, edgeVars>>

\* pd.to_datetime(date): midnight of that day.
ToDatetime(day) == IF day = None THEN None ELSE Some(Val(day) * TicksPerDay)

\* The process builds its DataStore from the data directory.
Load ==
    /\ store = NoStore
    /\ store' = from_directory(csv)
    /\ UNCHANGED <<csv, resp, cacheVars, chatVars, edgeVars>>

\* store.find_customer_by_identity(name, birthdate), birthdate any Timestamp.
FindCustomerByIdentity ==
    /\ Ready
    /\ \E name \in NameArgs \cup {<<" ">>}, day \in BirthDays,
          tick \in 0..(TicksPerDay - 1) :
          Reply("find_customer_by_identity",
                [name |-> name, birthdate |-> day * TicksPerDay + tick],
                find_customer_by_identity(store, name,
                                          day * TicksPerDay + tick))

ListActiveAccounts ==
    /\ Ready
    /\ \E customer_id \in CustomerIds, account_type \in AccountTypeArgs :
          Reply("list_active_accounts",
                [customer_id |-> customer_id, account_type |-> account_type],
                list_active_accounts(store, customer_id, account_type))

ListAllProducts ==
    /\ Ready
    /\ \E customer_id \in CustomerIds :
          Reply("list_all_products", [customer_id |-> customer_id],
                list_all_products(store, customer_id))

ListCardProducts ==
    /\ Ready
    /\ \E customer_id \in CustomerIds :
          Reply("list_card_products", [customer_id |-> customer_id],
                list_card_products(store, customer_id))

GetCustomerSnapshot ==
    /\ Ready
    /\ \E customer_id \in CustomerIds :
          Reply("get_customer_snapshot", [customer_id |-> customer_id],
                get_customer_snapshot(store, customer_id))

FilterTransactions ==
    /\ Ready
    /\ \E customer_id \in CustomerIds \ {"C4"}, merchant \in MerchantArgs,
          n \in NArgs, date_from \in DateArgs, date_to \in DateArgs,
          min_amount \in AmountArgs :
          \E out \in filter_transactions(store, customer_id, merchant, n,
                                         date_from, date_to, min_amount) :
             Reply("filter_transactions",
                   [customer_id |-> customer_id, merchant |-> merchant,
                    n |-> n, date_from |-> date_from, date_to |-> date_to,
                    min_amount |-> min_amount],
                   out)

\* CustomerLookupRequest.validate_name has stripped the name.
handle_customer_lookup ==
    /\ Ready
    /\ \E name \in NameArgs, birthdate \in BirthDays :
          LET birthdate_ts == Val(ToDatetime(Some(birthdate)))
              found == find_customer_by_identity(store, Strip(name),
                                                 birthdate_ts)
              products_df == list_all_products(store, found.value)
              out == IF found.kind = "raise"
                     THEN IF found.error = "CustomerNotFoundError"
                          THEN Http(404)
                          ELSE IF found.error = "CustomerAmbiguousError"
                          THEN Http(409)
                          ELSE found
                     ELSE IF products_df.kind = "raise" THEN products_df
                     ELSE Ok([customer_id |-> found.value,
                              products |-> products_df.value])
          IN  Reply("customer.lookup",
                    [name |-> Strip(name), birthdate |-> birthdate], out)

\* The request passed TransactionsFilterRequest: n in 1..100, min_amount >= 0,
\* date_to not earlier than date_from.
handle_transactions ==
    /\ Ready
    /\ \E customer_id \in CustomerIds \ {"C4"}, merchant \in MerchantArgs,
          n \in NArgs, date_from \in DayArgs, date_to \in DayArgs,
          min_amount \in AmountArgs :
          /\ (date_from # None /\ date_to # None)
                => Val(date_to) >= Val(date_from)
          /\ \E df \in filter_transactions(store, customer_id, merchant, n,
                                           ToDatetime(date_from),
                                           ToDatetime(date_to), min_amount) :
                LET items == [i \in DOMAIN df.value |->
                                [transaction_id |-> df.value[i].transaction_id,
                                 product_id |-> df.value[i].product_id,
                                 date |-> df.value[i].date,
                                 amount |-> df.value[i].amount_signed,
                                 balance_after |-> df.value[i].balance_after]]
                    out == IF df.kind = "raise" THEN df
                           ELSE IF df.value = <<>>
                           THEN Ok([customer_id |-> customer_id, total |-> 0,
                                    items |-> <<>>])
                           ELSE Ok([customer_id |-> customer_id,
                                    total |-> Sum([i \in DOMAIN df.value |->
                                                 df.value[i].amount_signed]),
                                    items |-> items])
                IN  Reply("transactions.filter",
                          [customer_id |-> customer_id, merchant |-> merchant,
                           n |-> n, date_from |-> date_from,
                           date_to |-> date_to, min_amount |-> min_amount],
                          out)

BLOCKED == <<"B","l","o","c","k","e","d"," ","b","y"," ",
            "C","u","s","t","o","m","e","r">>
ACTIVE == <<"A","c","t","i","v","e">>

\* card.update as a real update would be: the new status is written to the
\* customer's first card product.  The handler of handlers.py does not do this.
CardUpdateWritingStatus ==
    /\ Ready
    /\ \E customer_id \in CustomerIds, action \in CardActions :
          LET cards_df == list_card_products(store, customer_id)
              new_status == IF action = "block" THEN BLOCKED ELSE ACTIVE
          IN  /\ cards_df.kind = "ok" /\ cards_df.value # <<>>
              /\ store' = [store EXCEPT !.products =
                    [i \in DOMAIN @ |->
                       IF @[i].product_id = cards_df.value[1].product_id
                       THEN [@[i] EXCEPT !.status = new_status] ELSE @[i]]]
              /\ resp' = [op |-> "card.update",
                          args |-> [customer_id |-> customer_id,
                                    action |-> action],
                          out |-> Ok([status |-> "ok",
                                      new_status |-> new_status])]
              /\ UNCHANGED <<csv, cacheVars, chatVars, edgeVars>>

handle_card_update ==
    /\ Ready
    /\ \E customer_id \in CustomerIds, action \in CardActions, uuid \in Uuids :
          LET cards_df == list_card_products(store, customer_id)
              card_row == cards_df.value[1]
              out == IF cards_df.kind = "raise" THEN cards_df
                     ELSE IF cards_df.value = <<>> THEN Http(404)
                     ELSE Ok([status |-> "ok",
                              request_id |-> <<"CARD-", uuid>>,
                              new_status |-> IF action = "block"
                                             THEN BLOCKED ELSE ACTIVE,
                              card_product |->
                                  [product_id |-> card_row.product_id,
                                   product_name |-> card_row.product_name,
                                   status_before |-> card_row.status]])
          IN  Reply("card.update",
                    [customer_id |-> customer_id, action |-> action], out)

\* contact.update keeping every field that is not null, the empty text
\* included: 'if value is not None' in place of 'if value'.
ContactUpdateNonNull ==
    /\ Ready
    /\ \E customer_id \in CustomerIds, email \in EmailArgs, phone \in PhoneArgs,
          address \in AddressArgs, uuid \in Uuids :
          LET given == [email |-> email, phone |-> phone, address |-> address]
              changes == {k \in DOMAIN given : given[k] # None}
              snapshot == get_customer_snapshot(store, customer_id)
              out == IF changes = {} THEN Http(400)
                     ELSE IF snapshot.kind = "raise" THEN snapshot
                     ELSE Ok([status |-> "ok",
                              ticket_id |-> <<"TICKET-", uuid>>,
                              customer_id |-> customer_id,
                              changed |->
                                  [k \in changes \cap snapshot.value.keys |->
                                      Val(given[k])]])
          IN  Reply("contact.update",
                    [customer_id |-> customer_id, email |-> email,
                     phone |-> phone, address |-> address], out)

\* The request passed ContactUpdateRequest: a non-empty email contains "@".
handle_contact_update ==
    /\ Ready
    /\ \E customer_id \in CustomerIds, email \in EmailArgs, phone \in PhoneArgs,
          address \in AddressArgs, uuid \in Uuids :
          LET given == [email |-> email, phone |-> phone, address |-> address]
              changes == {k \in DOMAIN given :
                            given[k] # None /\ Val(given[k]) # <<>>}
              snapshot == get_customer_snapshot(store, customer_id)
              out == IF changes = {} THEN Http(400)
                     ELSE IF snapshot.kind = "raise" THEN snapshot
                     ELSE Ok([status |-> "ok",
                              ticket_id |-> <<"TICKET-", uuid>>,
                              customer_id |-> customer_id,
                              changed |->
                                  [k \in changes \cap snapshot.value.keys |->
                                      Val(given[k])]])
          IN  Reply("contact.update",
                    [customer_id |-> customer_id, email |-> email,
                     phone |-> phone, address |-> address], out)

handle_savings_open ==
    /\ Ready
    /\ \E customer_id \in CustomerIds, uuid \in Uuids :
          LET exists == ensure_customer_exists(store, customer_id)
              out == IF exists.kind = "raise" THEN exists
                     ELSE Ok([status |-> "ok",
                              summary |-> [new_product_id |-> <<"SAV-", uuid>>,
                                           product_name |-> "ING Orange Savings",
                                           starting_balance |-> "0.00 EUR"]])
          IN  Reply("savings.open", [customer_id |-> customer_id], out)

\* appointment.create confirming whatever slot is asked for.
AppointmentAcceptingAnySlot ==
    /\ Ready
    /\ \E customer_id \in CustomerIds, slot \in SlotArgs, today \in Today :
          LET exists == ensure_customer_exists(store, customer_id)
              base_slots == [i \in 1..6 |->
                               [day |-> today + ((i + 1) \div 2),
                                hour |-> IF i % 2 = 1 THEN 10 ELSE 14]]
              out == IF exists.kind = "raise" THEN exists
                     ELSE IF slot = None
                     THEN Ok([status |-> "pending_confirmation",
                              slots |-> base_slots, confirmed |-> None])
                     ELSE Ok([status |-> "confirmed", slots |-> base_slots,
                              confirmed |-> slot])
          IN  Reply("appointment.create",
                    [customer_id |-> customer_id, slot |-> slot,
                     today |-> today], out)

\* today is datetime.now().date() at the time of the call.
handle_appointment_create ==
    /\ Ready
    /\ \E customer_id \in CustomerIds, slot \in SlotArgs, today \in Today :
          LET exists == ensure_customer_exists(store, customer_id)
              base_slots == [i \in 1..6 |->
                               [day |-> today + ((i + 1) \div 2),
                                hour |-> IF i % 2 = 1 THEN 10 ELSE 14]]
              out == IF exists.kind = "raise" THEN exists
                     ELSE IF slot = None
                     THEN Ok([status |-> "pending_confirmation",
                              slots |-> base_slots, confirmed |-> None])
                     ELSE IF Val(slot) \notin Range(base_slots) THEN Http(400)
                     ELSE Ok([status |-> "confirmed", slots |-> base_slots,
                              confirmed |-> slot])
          IN  Reply("appointment.create",
                    [customer_id |-> customer_id, slot |-> slot,
                     today |-> today], out)

\* The outcome goes back to the caller; the next request may start.
Return ==
    /\ resp # NoResp
    /\ resp' = NoResp
    /\ UNCHANGED <<csv, store, cacheVars, chatVars, edgeVars>>

-----------------------------------------------------------------------------
(* ChatBot (nlu.py).  The provider's answers are inputs: the grounded text  *)
(* and documents, the classifier's output string, the streamed chunks.      *)

MaxChunks == 2
MaxHistory == 3

\* The enum of classify_intent's response schema.
INTENTS ==
    {"Update customer information",
     "Query for details about their existing product",
     "Query for their account balance",
     "Query for details about their transactions",
     "Get more information about the bank's product",
     "Block or unblock or card",
     "Speak to a human or create appointment at the branch",
     "Something else"}

INFORMATIONAL ==
    {"Get more information about the bank's product",
     "Speak to a human or create appointment at the branch"}

\* The table without its entry for the card intent.
PayloadMappingWithoutCards ==
    [i \in {"Query for their account balance",
            "Update customer information",
            "Query for details about their existing product",
            "Query for details about their transactions"} |->
        [api |-> "/intent/balances.get", payload |-> {"customer_id"}]]

\* payload_mapping of _create_payload_prompt: intent -> api.
payload_mapping ==
    [i \in {"Query for their account balance",
            "Update customer information",
            "Query for details about their existing product",
            "Query for details about their transactions",
            "Block or unblock or card"} |->
        [api |-> CASE i = "Query for their account balance"
                        -> "/intent/balances.get"
                   [] i = "Query for details about their existing product"
                        -> "/intent/customer.lookup"
                   [] i = "Query for details about their transactions"
                        -> "/intent/transactions.filter"
                   [] OTHER -> "/intent/card.update",
         payload |-> CASE i = "Query for their account balance"
                            -> {"customer_id", "account_type"}
                       [] i = "Query for details about their existing product"
                            -> {"customer_name", "dob"}
                       [] i = "Query for details about their transactions"
                            -> {"customer_id", "accounts"}
                       [] OTHER -> {"customer_id", "action"}]]

\* 'Thank you for your cooperation, I will now proceed with your request'
COMPLETION_PHRASE ==
    <<"T","h","a","n","k"," ","y","o","u"," ","f","o","r"," ","y","o","u",
      "r"," ","c","o","o","p","e","r","a","t","i","o","n",","," ","I"," ",
      "w","i","l","l"," ","n","o","w"," ","p","r","o","c","e","e","d"," ",
      "w","i","t","h"," ","y","o","u","r"," ","r","e","q","u","e","s","t">>

RETRY_PROMPT ==
    <<"P","l","e","a","s","e"," ","t","r","y"," ","a","g","a","i","n"," ",
      "s","o"," ","t","h","a","t"," ","I"," ","c","a","n"," ","h","e","l",
      "p"," ","y","o","u",".">>

NEED_MORE ==
    <<"I"," ","n","e","e","d"," ","m","o","r","e"," ","i","n","f","o","r",
      "m","a","t","i","o","n"," ","f","r","o","m"," ","y","o","u",":"," ">>

\* Texts the provider and the customer can produce.
QUERY == <<"H","e","l","p">>
INFO == <<"I","N","G">>
DOCS == <<"d","o","c">>
QUESTIONS == <<"N","a","m","e","?">>
UserReplies == {<<"J","o","e">>}
\* A chunk is a piece of the model's reply: the stream may deliver the
\* completion sentence whole or cut in two anywhere.
Chunks ==
    {COMPLETION_PHRASE \o <<".">>, QUESTIONS,
     SubSeq(COMPLETION_PHRASE, 1, 32),
     SubSeq(COMPLETION_PHRASE, 33, Len(COMPLETION_PHRASE)) \o <<".">>}

RECURSIVE JoinChunks(_)
\* The text of the whole reply: the chunks' texts in order.
JoinChunks(chunks) ==
    IF chunks = <<>> THEN <<>> ELSE Head(chunks) \o JoinChunks(Tail(chunks))

RECURSIVE SeqsUpTo(_, _)
SeqsUpTo(S, k) ==
    IF k = 0 THEN {<<>>}
    ELSE SeqsUpTo(S, k - 1)
         \cup {Append(q, x) : q \in {r \in SeqsUpTo(S, k - 1) : Len(r) = k - 1},
                              x \in S}

\* The streams generate_content_stream can yield: up to MaxChunks chunks.
Streams == SeqsUpTo(Chunks, MaxChunks)

\* A dict with the keys the code reads; an absent key and a null value both
\* read as None with .get().
Dict(intent, auth_required, questions) ==
    [type |-> "dict", intent |-> intent, auth_required |-> auth_required,
     questions |-> questions]

EmptyDict == Dict(None, None, None)

\* Strings classify_intent can return.  A string is known by what each parser
\* makes of it: strict is the value of json.loads, literal the value of
\* ast.literal_eval, None where that parser raises.
\*   - an object in JSON with true/false: no Python literal;
\*   - {'intent': 'Something else', 'auth_required': True}: no JSON;
\*   - {"intent": "Block\/unblock card"}: both parse it, the escape differently;
\*   - []: both parse it, to a list;
\*   - empty or cut-off text: neither parses it.
ClassifierOutputs ==
    {[strict |-> Some(Dict(i, a, q)), literal |-> None] :
        i \in {None} \cup {Some(x) : x \in INTENTS},
        a \in {Some(TRUE), Some(FALSE)},
        q \in {None, Some(QUESTIONS)}}
    \cup {[strict |-> None,
           literal |-> Some(Dict(Some("Something else"), Some(TRUE), None))],
          [strict |-> Some(Dict(Some("Block/unblock card"), None, None)),
           literal |-> Some(Dict(Some("Block\\/unblock card"), None, None))],
          [strict |-> Some([type |-> "list"]),
           literal |-> Some([type |-> "list"])],
          [strict |-> None, literal |-> None]}

\* The parsers tried in the other order: ast.literal_eval first, json.loads
\* when it raises.
ParseLiteralFirst(js_string) ==
    IF js_string.literal # None THEN Val(js_string.literal)
    ELSE IF js_string.strict # None THEN Val(js_string.strict)
    ELSE EmptyDict

_parse_json(js_string) ==
    IF js_string.strict # None THEN Val(js_string.strict)
    ELSE IF js_string.literal # None THEN Val(js_string.literal)
    ELSE EmptyDict

\* payload_mapping.get(intent, {}).get("payload"): a lookup that yields an
\* empty payload, not an exception, for an intent without an entry.
PayloadPromptOrEmpty(intent) ==
    IF intent # None /\ Val(intent) \in DOMAIN payload_mapping
    THEN Ok(payload_mapping[Val(intent)].payload)
    ELSE Ok({})

\* payload_mapping.get(intent).get("payload"): .get on None raises.
_create_payload_prompt(intent) ==
    IF intent # None /\ Val(intent) \in DOMAIN payload_mapping
    THEN Ok(payload_mapping[Val(intent)].payload)
    ELSE Raise("AttributeError")

ChatReply(op, args, out) == chat_out' = [op |-> op, args |-> args, out |-> out]

start_convo ==
    \E query \in {QUERY}, relevant_docs \in {<<>>, DOCS},
       js_string \in ClassifierOutputs :
       LET intent_js == _parse_json(js_string)
           reply == INFO \o <<"\n">>
                    \o (IF intent_js.questions # None
                        THEN NEED_MORE \o Val(intent_js.questions) ELSE <<>>)
           args == [query |-> query, classified |-> js_string]
       IN  /\ IF intent_js.type # "dict"
              THEN /\ ChatReply("start_convo", args, Raise("AttributeError"))
                   /\ UNCHANGED <<chat_history, convo>>
              ELSE /\ chat_history' = <<[role |-> "user", text |-> query],
                                        [role |-> "model", text |-> reply]>>
                   /\ convo' = Some(intent_js)
                   /\ ChatReply("start_convo", args,
                         IF intent_js.intent = Some("Something else")
                            \/ intent_js.intent = None
                         THEN Ok(<<Some(RETRY_PROMPT), None, Some(intent_js)>>)
                         ELSE IF intent_js.auth_required = Some(TRUE)
                         THEN Ok(<<Some(reply), Some(relevant_docs),
                                   Some(intent_js)>>)
                         ELSE IF Val(intent_js.intent) \in INFORMATIONAL
                         THEN Ok(<<Some(reply), Some(relevant_docs),
                                   Some(intent_js)>>)
                         ELSE Ok(<<None, None, None>>))
           /\ UNCHANGED <<end_convo, cacheVars, storeVars, edgeVars>>

RECURSIVE StreamLoop(_, _, _)
\* The for loop of continue_convo over the chunks, from the state self.
StreamLoop(chunks, user_reply, self) ==
    IF chunks = <<>> THEN self
    ELSE LET reply == Head(chunks)
             asked == Append(self.chat_history,
                             [role |-> "user", text |-> user_reply])
         IN  StreamLoop(Tail(chunks), user_reply,
                IF Contains(reply, COMPLETION_PHRASE)
                THEN [chat_history |-> asked, end_convo |-> TRUE]
                ELSE [chat_history |->
                         Append(asked, [role |-> "model", text |-> reply]),
                      end_convo |-> self.end_convo])

\* reply is unbound when the stream yields no chunk.
continue_convo ==
    /\ Len(chat_history) < MaxHistory
    /\ \E user_reply \in UserReplies,
          intent \in {None} \cup {Some(x) : x \in INTENTS} :
          LET prompt == _create_payload_prompt(intent)
              args == [user_reply |-> user_reply, intent |-> intent]
          IN  IF prompt.kind = "raise"
              THEN /\ ChatReply("continue_convo", args, prompt)
                   /\ UNCHANGED <<chat_history, end_convo>>
              ELSE \E chunks \in Streams :
                      LET after == StreamLoop(chunks, user_reply,
                                      [chat_history |-> chat_history,
                                       end_convo |-> end_convo])
                      IN  /\ chat_history' = after.chat_history
                          /\ end_convo' = after.end_convo
                          /\ chat_out' =
                                [op |-> "continue_convo", args |-> args,
                                 stream |-> chunks,
                                 out |-> IF chunks = <<>>
                                         THEN Raise("UnboundLocalError")
                                         ELSE Ok(chunks[Len(chunks)])]
    /\ UNCHANGED <<convo, cacheVars, storeVars, edgeVars>>

-----------------------------------------------------------------------------
(* Speech endpoints (main.py).  The Google clients are inputs: what each     *)
(* recognize call and the synthesize_speech call do.                         *)

\* voice_map: language code -> (language_code, voice name)
voice_map ==
    [l \in {"en-GB", "nl-BE", "fr-BE"} |->
        <<l, CASE l = "en-GB" -> "en-GB-Neural2-C"
               [] l = "nl-BE" -> "nl-BE-Standard-A"
               [] OTHER -> "fr-BE-Standard-A">>]

\* The lang field of a request; None is a request without it.
LangArgs == {None, Some(""), Some("en-GB"), Some("nl-BE"), Some("de-DE")}

\* body.lang or "en-GB"
LangOrDefault(lang) ==
    IF lang = None \/ lang = Some("") THEN "en-GB" ELSE Val(lang)

\* What one recognize call can do: raise, or return results, each with its
\* alternatives' first transcript (None for a result without alternatives).
RecognizeOutcomes ==
    {Raise("Exception"),
     Ok(<<>>),
     Ok(<<Some(<<" ","h","i">>), None, Some(<<"t","i","m","e"," ">>)>>)}

\* What synthesize_speech can do.
SynthesizeOutcomes == {Raise("Exception"), Ok("mp3")}

RECURSIVE JoinWith(_, _)
\* sep.join(texts)
JoinWith(sep, texts) ==
    IF texts = <<>> THEN <<>>
    ELSE IF Len(texts) = 1 THEN texts[1]
    ELSE texts[1] \o sep \o JoinWith(sep, Tail(texts))

\* " ".join(r.alternatives[0].transcript for r in resp.results
\*          if r.alternatives).strip()
Transcript(results) ==
    LET with == SelectSeq(results, LAMBDA r : r # None)
    IN  Strip(JoinWith(<<" ">>, [i \in DOMAIN with |-> Val(with[i])]))

\* The recognition of stt and of _stt_bytes_to_text (the same statements):
\* first is what recognize does with ENCODING_UNSPECIFIED, second what it
\* does with MP3 at 44100 Hz.  calls lists the attempts made.
_stt_bytes_to_text(first, second) ==
    IF first.kind = "ok"
    THEN [calls |-> <<[encoding |-> "ENCODING_UNSPECIFIED", rate |-> None,
                       raised |-> FALSE]>>,
          out |-> Ok(Transcript(first.value))]
    ELSE [calls |-> <<[encoding |-> "ENCODING_UNSPECIFIED", rate |-> None,
                       raised |-> TRUE],
                      [encoding |-> "MP3", rate |-> Some(44100),
                       raised |-> second.kind = "raise"]>>,
          out |-> IF second.kind = "ok" THEN Ok(Transcript(second.value))
                  ELSE second]

\* _tts_text_to_b64mp3: an unknown language gets the en-GB voice.
_tts_text_to_b64mp3(text, lang, synth) ==
    LET voice == IF lang \in DOMAIN voice_map THEN voice_map[lang]
                 ELSE <<"en-GB", "en-GB-Neural2-C">>
    IN  [calls |-> <<[text |-> text, language_code |-> voice[1],
                      name |-> voice[2]]>>,
         out |-> IF synth.kind = "ok" THEN Ok([b64 |-> synth.value])
                 ELSE synth]

YOU_SAID == <<"Y","o","u"," ","s","a","i","d",":"," ">>
HELP_NEXT == <<"."," ","H","o","w"," ","c","a","n"," ","I"," ","h","e","l","p"," ","n","e","x","t","?">>
REPEAT == <<"I"," ","d","i","d","n","'","t"," ","c","a","t","c","h"," ","t","h","a","t","."," ","C","o","u","l","d"," ","y","o","u"," ","r","e","p","e","a","t","?">>
RUNNING == <<"I","'","m"," ","r","u","n","n","i","n","g"," ","i","n"," ","t","h","e"," ","c","l","o","u","d","."," ","I"," ","c","a","n"," ","h","e","l","p"," ","w","i","t","h"," ","b","a","n","k","i","n","g"," ","a","s","s","i","s","t","a","n","t"," ","f","l","o","w","s",","," ","s","p","e","e","c","h"," ","t","e","s","t","s",","," ","o","r"," ","g","e","n","e","r","a","l"," ","q","u","e","s","t","i","o","n","s",".">>
IM_HERE == <<"I","'","m"," ","h","e","r","e",".">>

\* _reply_llm: the rule-based answer, or the Vertex model's when
\* ENABLE_VERTEX is "1" (vertex is what predict does: raise or return text).
_reply_llm(user_text, vertex) ==
    IF vertex = None
    THEN IF user_text = <<>> THEN Ok(REPEAT)
         ELSE IF Contains(Lower(user_text), <<"t","i","m","e">>)
         THEN Ok(RUNNING)
         ELSE Ok(YOU_SAID \o user_text \o HELP_NEXT)
    ELSE IF Val(vertex).kind = "raise" THEN Val(vertex)
    ELSE IF Strip(Val(vertex).value) = <<>> THEN Ok(IM_HERE)
    ELSE Ok(Strip(Val(vertex).value))

\* POST /stt
stt ==
    /\ \E lang \in LangArgs, first \in RecognizeOutcomes,
          second \in RecognizeOutcomes :
          LET r == _stt_bytes_to_text(first, second)
          IN  speech' = [op |-> "stt",
                         args |-> [lang |-> lang],
                         language_code |-> LangOrDefault(lang),
                         stt_calls |-> r.calls,
                         transcript |-> IF r.out.kind = "ok"
                                        THEN Some(r.out.value) ELSE None,
                         tts_calls |-> <<>>,
                         out |-> r.out]
    /\ UNCHANGED <<fs, data_dir, cacheVars, storeVars, chatVars>>

\* POST /tts; TTSIn.lang is required.
tts ==
    /\ \E lang \in LangArgs \ {None}, text \in {<<"h","i">>},
          synth \in SynthesizeOutcomes :
          LET r == _tts_text_to_b64mp3(text, Val(lang), synth)
              known == Val(lang) \in DOMAIN voice_map
          IN  speech' = [op |-> "tts",
                         args |-> [lang |-> lang, text |-> text],
                         language_code |-> Val(lang),
                         stt_calls |-> <<>>,
                         transcript |-> None,
                         tts_calls |-> IF known THEN r.calls ELSE <<>>,
                         out |-> IF known THEN r.out ELSE Http(400)]
    /\ UNCHANGED <<fs, data_dir, cacheVars, storeVars, chatVars>>

\* POST /assist: speech to text, the answer, text to speech.  The route is
\* registered twice; both handlers call the helpers by their module-level
\* names, which are bound to the last definitions of _stt_bytes_to_text and
\* _tts_text_to_b64mp3.
assist ==
    /\ \E lang \in LangArgs, first \in RecognizeOutcomes,
          second \in RecognizeOutcomes,
          vertex \in {None, Some(Raise("Exception")), Some(Ok(<<" ">>)),
                      Some(Ok(<<"o","k">>))},
          synth \in SynthesizeOutcomes :
          LET heard == _stt_bytes_to_text(first, second)
              answer == _reply_llm(heard.out.value, vertex)
              said == _tts_text_to_b64mp3(answer.value, LangOrDefault(lang),
                                          synth)
              done == heard.out.kind = "ok" /\ answer.kind = "ok"
          IN  speech' = [op |-> "assist",
                         args |-> [lang |-> lang],
                         language_code |-> LangOrDefault(lang),
                         stt_calls |-> heard.calls,
                         transcript |-> IF heard.out.kind = "ok"
                                        THEN Some(heard.out.value) ELSE None,
                         tts_calls |-> IF done THEN said.calls ELSE <<>>,
                         out |-> IF heard.out.kind = "raise" THEN heard.out
                                 ELSE IF answer.kind = "raise" THEN answer
                                 ELSE IF said.out.kind = "raise" THEN said.out
                                 ELSE Ok([text |-> answer.value,
                                          audio |-> said.out.value])]
    /\ UNCHANGED <<fs, data_dir, cacheVars, storeVars, chatVars>>

-----------------------------------------------------------------------------
(* Data directory resolution (config.py) *)

\* The three fixed candidates, relative to PACKAGE_ROOT (.../app/backend).
NEW_LOCATION == "/app/data/synthetic_data"
PACKAGE_LOCATION == "/app/backend/synthetic_data"
LEGACY_LOCATION == "/app/synthetic_data"

\* Values of the DATA_DIR environment variable; None is unset.
EnvDirs ==
    {None, Some(""), Some("~/data"), Some("/srv/data"),
     Some("/app/backend/../synthetic_data")}

\* Path(env_dir).expanduser().resolve()
Resolve(env_dir) ==
    CASE env_dir = "~/data" -> "/home/user/data"
      [] env_dir = "/app/backend/../synthetic_data" -> LEGACY_LOCATION
      [] OTHER -> env_dir

Paths ==
    {"/home/user/data", "/srv/data", NEW_LOCATION, PACKAGE_LOCATION,
     LEGACY_LOCATION}

\* What a path is on disk.
PathKinds == {"dir", "file", "missing"}

\* _candidate_directories(): the override, when set and not empty, then the
\* three fixed locations.
_candidate_directories(f) ==
    (IF f.env # None /\ Val(f.env) # "" THEN <<Resolve(Val(f.env))>>
     ELSE <<>>)
    \o <<NEW_LOCATION, PACKAGE_LOCATION, LEGACY_LOCATION>>

\* The first candidate for which exists() holds, not asking is_dir().
FirstExistingPath(f) ==
    LET candidates == _candidate_directories(f)
        found == {i \in DOMAIN candidates : f.kind[candidates[i]] # "missing"}
    IN  IF found = {}
        THEN [kind |-> "raise", error |-> "FileNotFoundError",
              searched |-> candidates]
        ELSE Ok(candidates[CHOOSE i \in found : \A j \in found : i <= j])

RECURSIVE FirstDirectory(_, _)
\* for candidate in candidates: if exists and is_dir: return candidate
FirstDirectory(f, candidates) ==
    IF candidates = <<>> THEN None
    ELSE IF f.kind[Head(candidates)] = "dir" THEN Some(Head(candidates))
    ELSE FirstDirectory(f, Tail(candidates))

\* default_data_directory()
default_data_directory(f) ==
    LET candidates == _candidate_directories(f)
        hit == FirstDirectory(f, candidates)
    IN  IF hit # None THEN Ok(Val(hit))
        ELSE [kind |-> "raise", error |-> "FileNotFoundError",
              searched |-> candidates]

\* The process starts in some environment and file system.
Environment ==
    /\ fs = NoResp
    /\ \E env \in EnvDirs, kind \in [Paths -> PathKinds] :
          fs' = [env |-> env, kind |-> kind]
    /\ UNCHANGED <<speech, data_dir, cacheVars, storeVars, chatVars>>

\* DATA_DIR = default_data_directory(), when the module is imported.
ImportConfig ==
    /\ fs # NoResp
    /\ data_dir = NoResp
    /\ data_dir' = default_data_directory(fs)
    /\ UNCHANGED <<speech, fs, cacheVars, storeVars, chatVars>>

-----------------------------------------------------------------------------
(* Specifications *)

IdleCache ==
    /\ cache = None
    /\ loads = 0
    /\ thr = <<>>

IdleStore ==
    /\ csv = BaseDir
    /\ store = NoStore
    /\ resp = NoResp

IdleChat ==
    /\ chat_history = <<>>
    /\ end_convo = FALSE
    /\ convo = None
    /\ chat_out = NoResp

IdleEdge ==
    /\ speech = NoResp
    /\ fs = NoResp
    /\ data_dir = NoResp

\* Spec: customers.csv, products.csv and products_closed.csv vary; the
\* identity lookup, the product queries and the mocked updates run.
Init ==
    /\ csv \in {[BaseDir EXCEPT !.customers = c] : c \in CustomerFiles}
               \cup {[BaseDir EXCEPT !.products = p, !.products_closed = pc] :
                        p \in ProductFiles, pc \in ClosedFiles}
    /\ store = NoStore
    /\ resp = NoResp
    /\ IdleCache
    /\ IdleChat
    /\ IdleEdge

Next ==
    \/ Load
    \/ FindCustomerByIdentity
    \/ ListActiveAccounts
    \/ ListAllProducts
    \/ ListCardProducts
    \/ GetCustomerSnapshot
    \/ handle_customer_lookup
    \/ handle_card_update
    \/ handle_contact_update
    \/ handle_savings_open
    \/ handle_appointment_create
    \/ Return

Spec == Init /\ [][Next]_vars

\* SpecLedger: transactions.csv varies, with and without a customer row whose
\* id cell is blank and a product listed in both product tables.
InitLedger ==
    /\ csv \in {[BaseDir EXCEPT !.transactions = tx, !.customers = c,
                                !.products_closed = pc] :
                  tx \in TxFiles,
                  c \in {BaseDir.customers,
                         Append(BaseDir.customers, CustomerPool[4])},
                  pc \in {BaseDir.products_closed, Some(<<ClosedPool[2]>>)}}
    /\ store = NoStore
    /\ resp = NoResp
    /\ IdleCache
    /\ IdleChat
    /\ IdleEdge

NextLedger ==
    \/ Load
    \/ FilterTransactions
    \/ handle_transactions
    \/ Return

SpecLedger == InitLedger /\ [][NextLedger]_vars

\* SpecChat: one ChatBot instance serves start_convo and continue_convo calls.
InitChat == IdleCache /\ IdleStore /\ IdleChat /\ IdleEdge

NextChat ==
    \/ start_convo
    \/ continue_convo

SpecChat == InitChat /\ [][NextChat]_vars

\* SpecVoice: the speech endpoints serve requests.
InitVoice == IdleCache /\ IdleStore /\ IdleChat /\ IdleEdge

NextVoice ==
    \/ stt
    \/ tts
    \/ assist

SpecVoice == InitVoice /\ [][NextVoice]_vars

\* SpecConfig: the configuration module is imported in some environment.
InitConfig == IdleCache /\ IdleStore /\ IdleChat /\ IdleEdge

NextConfig ==
    \/ Environment
    \/ ImportConfig

SpecConfig == InitConfig /\ [][NextConfig]_vars

\* SpecCache: threads call get_data_store concurrently.
NextCache ==
    \E t \in Threads : lru_lookup(t) \/ get_data_store_body(t) \/ lru_store(t)

InitThreads == InitCache /\ IdleStore /\ IdleChat /\ IdleEdge

SpecCache == InitThreads /\ [][NextCache]_vars

-----------------------------------------------------------------------------
(* Claims about get_data_store *)

\* C1: under any interleaving of concurrent first calls to get_data_store,
\* DataStore.from_directory runs at most once for the process and every
\* caller, concurrent or later, receives the same store instance.
C1_ConstructOnce ==
    /\ loads <= 1
    /\ \A t, u \in Threads :
          (thr[t].got # None /\ thr[u].got # None) => thr[t].got = thr[u].got

\* Two callers hold different instances: each ran from_directory itself.
C1_TwoInstances ==
    \E t, u \in Threads :
       /\ thr[t].got # None /\ thr[u].got # None
       /\ thr[t].got # thr[u].got
       /\ loads >= 2

-----------------------------------------------------------------------------
(* Claims about the loaded ledger and filter_transactions (SpecLedger) *)

\* C2: after from_directory, for every product p with at least one
\* transaction, the rows of p stand in ledger order (date ascending, then
\* transaction_id ascending), each balance_after is the previous balance_after
\* of the same product plus the row's amount_signed, and product_balances[p]
\* equals both the last balance_after of p and the sum of amount_signed over
\* p's rows.
C2_ProductBalances ==
    store # NoStore =>
       /\ DOMAIN store.product_balances
             = {store.transactions[i].product_id : i \in DOMAIN store.transactions}
       /\ \A p \in DOMAIN store.product_balances :
             LET rows == SelectSeq(store.transactions,
                                   LAMBDA r : r.product_id = p)
             IN  /\ \A i \in 1..(Len(rows) - 1) :
                       \/ rows[i].date < rows[i + 1].date
                       \/ /\ rows[i].date = rows[i + 1].date
                          /\ ~StrLess(rows[i + 1].transaction_id,
                                      rows[i].transaction_id)
                 /\ \A i \in DOMAIN rows :
                       rows[i].balance_after
                          = (IF i = 1 THEN 0 ELSE rows[i - 1].balance_after)
                            + rows[i].amount_signed
                 /\ store.product_balances[p] = rows[Len(rows)].balance_after
                 /\ store.product_balances[p]
                       = Sum([i \in DOMAIN rows |-> rows[i].amount_signed])

\* A ledger loaded from a file that was not in ledger order, holding two
\* products, one of them with a credit and a debit.
C2_TwoProductsLoaded ==
    /\ store # NoStore
    /\ Cardinality(DOMAIN store.product_balances) >= 2
    /\ \E i, j \in DOMAIN store.transactions :
          /\ store.transactions[i].product_id = store.transactions[j].product_id
          /\ store.transactions[i].amount_signed > 0
          /\ store.transactions[j].amount_signed < 0
    /\ \E i \in 1..(Len(csv.transactions) - 1) :
          StrLess(csv.transactions[i + 1].product_id,
                  csv.transactions[i].product_id)

\* C6: filter_transactions with min_amount = X returns no row with
\* abs(amount) < X, with date_from no row dated before it, with date_to no row
\* dated after it (bounds inclusive), only rows of the customer that match the
\* merchant text; and without n it returns every row of the customer that
\* satisfies all the given filters.
C6_FilterBounds ==
    (resp.op = "filter_transactions" /\ resp.out.kind = "ok") =>
       LET a == resp.args
           rows == resp.out.value
           Abs(x) == IF x < 0 THEN 0 - x ELSE x
           text(r) == IF r.description = None THEN <<>>
                      ELSE Lower(Val(r.description))
           fits(r) ==
              /\ r.customer_id = a.customer_id
              /\ a.merchant # None => Contains(text(r), Lower(Val(a.merchant)))
              /\ a.date_from # None => ~(r.date < Val(a.date_from))
              /\ a.date_to # None => ~(r.date > Val(a.date_to))
              /\ a.min_amount # None => ~(Abs(r.amount) < Val(a.min_amount))
       IN  /\ \A i \in DOMAIN rows : fits(rows[i])
           /\ a.n = None =>
                 \A r \in Range(store.transactions) :
                    fits(r) => r \in Range(rows)

\* A query with all three bounds given returned a row that lies exactly on
\* the lower date bound and a row whose absolute amount is exactly min_amount,
\* while another row of the customer was filtered out.
C6_RowsOnTheBounds ==
    /\ resp.op = "filter_transactions" /\ resp.out.kind = "ok"
    /\ resp.args.date_from # None /\ resp.args.date_to # None
    /\ resp.args.min_amount # None
    /\ \E i \in DOMAIN resp.out.value :
          resp.out.value[i].date = Val(resp.args.date_from)
    /\ \E i \in DOMAIN resp.out.value :
          resp.out.value[i].amount = 0 - Val(resp.args.min_amount)
    /\ \E r \in Range(store.transactions) :
          r.customer_id = resp.args.customer_id /\ r \notin Range(resp.out.value)

\* C7: filter_transactions returns its rows in non-increasing date order; when
\* n is given it returns min(n, number of matching rows) rows, none of them
\* dated earlier than a matching row that was left out.
C7_LatestFirst ==
    (resp.op = "filter_transactions" /\ resp.out.kind = "ok") =>
       LET a == resp.args
           rows == resp.out.value
           Abs(x) == IF x < 0 THEN 0 - x ELSE x
           matching ==
              {r \in Range(store.transactions) :
                 /\ r.customer_id = a.customer_id
                 /\ a.merchant # None =>
                       Contains(r.normalized_merchant, Lower(Val(a.merchant)))
                 /\ a.date_from # None => r.date >= Val(a.date_from)
                 /\ a.date_to # None => r.date <= Val(a.date_to)
                 /\ a.min_amount # None => Abs(r.amount) >= Val(a.min_amount)}
           count == Cardinality(matching)
       IN  /\ \A i \in 1..(Len(rows) - 1) : rows[i].date >= rows[i + 1].date
           /\ a.n # None =>
                 /\ Len(rows) = IF Val(a.n) < count THEN Val(a.n) ELSE count
                 /\ \A r \in Range(rows), m \in matching \ Range(rows) :
                       r.date >= m.date

\* A query with n given cut the result short: a matching row was left out,
\* and the rows of the customer were not latest-first in the ledger.
C7_Truncated ==
    /\ resp.op = "filter_transactions" /\ resp.out.kind = "ok"
    /\ resp.args.n # None
    /\ Len(resp.out.value) = Val(resp.args.n)
    /\ \E r \in Range(store.transactions) :
          /\ r.customer_id = resp.args.customer_id
          /\ r \notin Range(resp.out.value)
          /\ \E i \in DOMAIN resp.out.value : resp.out.value[i].date > r.date

\* C8: a transaction whose product_id is in neither the open nor the closed
\* products table is never returned by filter_transactions, nor counted by
\* transactions.filter, for any customer_id the store accepts as existing.
C8_OrphansExcluded ==
    (resp.op \in {"filter_transactions", "transactions.filter"}
       /\ resp.out.kind = "ok") =>
       LET known == {store.products[i].product_id : i \in DOMAIN store.products}
                    \cup {store.products_closed[i].product_id :
                             i \in DOMAIN store.products_closed}
           rows == IF resp.op = "filter_transactions" THEN resp.out.value
                   ELSE resp.out.value.items
       IN  \A i \in DOMAIN rows : rows[i].product_id \in known

\* transactions.filter answered for the customer id "nan" with an orphan
\* transaction among its items and in its total.
C8_OrphanCounted ==
    /\ resp.op = "transactions.filter" /\ resp.out.kind = "ok"
    /\ resp.args.customer_id = "nan"
    /\ resp.out.value.total # 0
    /\ \E i \in DOMAIN resp.out.value.items :
          resp.out.value.items[i].product_id = "P9"

-----------------------------------------------------------------------------
(* Claims about the identity lookup, the product queries and the mocked     *)
(* updates (Spec)                                                           *)

\* C3: find_customer_by_identity, matching on trimmed case-insensitive name
\* and equal normalized birthdate, reports not-found when no customer row
\* matches, ambiguous when two or more match, and returns the customer's id
\* when exactly one matches; customer.lookup answers 404 for not-found and 409
\* for ambiguous.
C3_IdentityOutcomes ==
    (resp.op \in {"find_customer_by_identity", "customer.lookup"}) =>
       LET day(t) == t \div TicksPerDay
           asked == IF resp.op = "customer.lookup" THEN resp.args.birthdate
                    ELSE day(resp.args.birthdate)
           hits == {i \in DOMAIN store.customers :
                      /\ Lower(Strip(IF store.customers[i].name = None
                                      THEN <<>>
                                      ELSE Val(store.customers[i].name)))
                            = Lower(Strip(resp.args.name))
                      /\ store.customers[i].birthdate # None
                      /\ day(Val(store.customers[i].birthdate)) = asked}
       IN  IF resp.op = "find_customer_by_identity"
           THEN /\ hits = {} => resp.out = Raise("CustomerNotFoundError")
                /\ Cardinality(hits) >= 2
                      => resp.out = Raise("CustomerAmbiguousError")
                /\ \A i \in hits :
                      hits = {i} => resp.out = Ok(store.customers[i].customer_id)
           ELSE /\ hits = {} => resp.out = Http(404)
                /\ Cardinality(hits) >= 2 => resp.out = Http(409)
                /\ \A i \in hits :
                      hits = {i} =>
                         /\ resp.out.kind = "ok"
                         /\ resp.out.value.customer_id
                               = store.customers[i].customer_id

\* customer.lookup answered 409: two rows that differ in case and padding of
\* the name, and in the time of day of the birthdate, matched the request.
C3_AmbiguousLookup ==
    /\ resp.op = "customer.lookup"
    /\ resp.out = Http(409)
    /\ \E i, j \in DOMAIN csv.customers :
          /\ i # j
          /\ csv.customers[i].name # csv.customers[j].name
          /\ csv.customers[i].birthdate # csv.customers[j].birthdate

\* C4: each customer-scoped query (list_active_accounts, list_all_products,
\* filter_transactions, list_card_products, get_customer_snapshot) called with
\* a customer_id that is not in the customers table fails with the
\* CustomerNotFound error kind, the kind find_customer_by_identity raises for
\* zero matches.
C4_CustomerNotFoundKind ==
    (/\ resp.op \in {"list_active_accounts", "list_all_products",
                     "filter_transactions", "list_card_products",
                     "get_customer_snapshot"}
     /\ \A i \in DOMAIN store.customers :
           store.customers[i].customer_id # resp.args.customer_id)
       => resp.out = Raise("CustomerNotFoundError")

\* list_all_products was called for an id that is not in the customers table
\* and raised ValueError.
C4_ValueErrorRaised ==
    /\ resp.op = "list_all_products"
    /\ resp.args.customer_id = "C9"
    /\ resp.out = Raise("ValueError")

\* C5: for every existing customer and every account_type filter,
\* list_active_accounts returns no product whose status contains "closed" in
\* any case, no product whose product_type matches neither the current nor
\* the savings keywords, only products of that customer and, when
\* account_type is given, only products classified as that type.
C5_ActiveAccounts ==
    (resp.op = "list_active_accounts" /\ resp.out.kind = "ok") =>
       \A i \in DOMAIN resp.out.value :
          LET r == resp.out.value[i]
              types == {ACCOUNT_TYPE_KEYWORDS[t].account_type :
                          t \in {u \in DOMAIN ACCOUNT_TYPE_KEYWORDS :
                                   \E k \in DOMAIN ACCOUNT_TYPE_KEYWORDS[u].keywords :
                                      Contains(Lower(r.product_type),
                                               ACCOUNT_TYPE_KEYWORDS[u].keywords[k])}}
          IN  /\ ~Contains(Lower(r.status), CLOSED)
              /\ types # {}
              /\ r.customer_id = resp.args.customer_id
              /\ r \in Range(store.products)
                    \/ \E q \in Range(store.products) :
                          q.product_id = r.product_id
              /\ resp.args.account_type # None
                    => Val(resp.args.account_type) \in types

\* list_active_accounts returned an account while the customer also owns a
\* product with a status such as "Closed" or "UNCLOSED", or one of a type that
\* is neither current nor savings.
C5_AccountReturnedOthersHeldBack ==
    /\ resp.op = "list_active_accounts" /\ resp.out.kind = "ok"
    /\ resp.out.value # <<>>
    /\ \E q \in Range(store.products) :
          /\ q.customer_id = resp.args.customer_id
          /\ \A i \in DOMAIN resp.out.value :
                resp.out.value[i].product_id # q.product_id
          /\ Contains(Lower(q.status), CLOSED)
                \/ infer_account_type(q.product_type) = None

\* C9: after any sequence of card.update, contact.update, savings.open and
\* appointment.create requests, successful or failing, the store's customers,
\* products, closed products, transactions and product_balances are what
\* from_directory built, and a card.update reports the status the card has in
\* the loaded products table.
C9_StoreUnchanged ==
    store # NoStore =>
       /\ store = from_directory(csv)
       /\ (resp.op = "card.update" /\ resp.out.kind = "ok") =>
             \E q \in Range(from_directory(csv).products) :
                /\ q.product_id = resp.out.value.card_product.product_id
                /\ q.status = resp.out.value.card_product.status_before

\* card.update answered a block request with the new status "Blocked by
\* Customer" for a card whose status in the store is still "Active".
C9_BlockedCardStillActive ==
    /\ resp.op = "card.update" /\ resp.out.kind = "ok"
    /\ resp.args.action = "block"
    /\ resp.out.value.new_status = BLOCKED
    /\ \E q \in Range(store.products) :
          /\ q.product_id = resp.out.value.card_product.product_id
          /\ q.status = ACTIVE

-----------------------------------------------------------------------------
(* Claims about the dialogue (SpecChat) *)

C11_CompletionPhrase ==
    [][(chat_out'.op = "continue_convo" /\ chat_out'.out.kind = "ok") =>
          LET reply == JoinChunks(chat_out'.stream)
              added == SubSeq(chat_history', Len(chat_history) + 1,
                              Len(chat_history'))
              said == SelectSeq(added, LAMBDA e : e.role = "model")
          IN  IF Contains(reply, COMPLETION_PHRASE)
              THEN end_convo' = TRUE /\ said = <<>>
              ELSE /\ end_convo' = end_convo
                   /\ JoinChunks([i \in DOMAIN said |-> said[i].text]) = reply
      ]_vars

\* The reply arrived in two chunks with the completion phrase cut between
\* them: end_convo is still false and both chunks stand in chat_history as
\* model turns.
C11_PhraseCutInTwo ==
    /\ chat_out.op = "continue_convo" /\ chat_out.out.kind = "ok"
    /\ Len(chat_out.stream) = 2
    /\ ~Contains(chat_out.stream[1], COMPLETION_PHRASE)
    /\ ~Contains(chat_out.stream[2], COMPLETION_PHRASE)
    /\ Contains(JoinChunks(chat_out.stream), COMPLETION_PHRASE)
    /\ end_convo = FALSE
    /\ chat_history[Len(chat_history)]
          = [role |-> "model", text |-> chat_out.stream[2]]

C13_EmptyTranscriptOnTotalFailure ==
    (/\ speech.op \in {"stt", "assist"}
     /\ \A i \in DOMAIN speech.stt_calls : speech.stt_calls[i].raised)
    => /\ speech.transcript = Some(<<>>)
       /\ speech.out.kind # "raise"

\* Both recognition attempts of a request raised and the second exception
\* left the handler.
C13_SecondFailurePropagates ==
    /\ speech.op \in {"stt", "assist"}
    /\ Len(speech.stt_calls) = 2
    /\ speech.stt_calls[1].raised /\ speech.stt_calls[2].raised
    /\ speech.transcript = None
    /\ speech.out = Raise("Exception")

\* C14: recognition attempts follow the order browser-native compressed
\* format (WEBM_OPUS), auto-detect (ENCODING_UNSPECIFIED), fixed fallback
\* (MP3 at 44100 Hz); an attempt is made only if the previous one raised, and
\* the first attempt that does not raise is the last and gives the transcript.
C14_ThreeStepFallbackChain ==
    speech.op \in {"stt", "assist"} =>
       LET chain == <<"WEBM_OPUS", "ENCODING_UNSPECIFIED", "MP3">>
           calls == speech.stt_calls
       IN  /\ Len(calls) \in 1..3
           /\ \A i \in DOMAIN calls :
                 /\ calls[i].encoding = chain[i]
                 /\ i > 1 => calls[i - 1].raised
                 /\ ~calls[i].raised => i = Len(calls)
           /\ ~calls[Len(calls)].raised => speech.transcript # None

\* A request whose first recognition attempt was the auto-detect
\* configuration, and whose fallback attempt was the last one possible.
C14_AutoDetectTriedFirst ==
    /\ speech.op \in {"stt", "assist"}
    /\ Len(speech.stt_calls) = 2
    /\ speech.stt_calls[1].encoding = "ENCODING_UNSPECIFIED"
    /\ speech.stt_calls[2] = [encoding |-> "MP3", rate |-> Some(44100), raised |-> FALSE]
    /\ speech.transcript # None

\* C15: whenever synthesis is requested (by /tts, or by /assist once it has
\* an answer to speak) with a language code outside the voice table, the
\* request is rejected as a validation error and the text-to-speech provider
\* is not called.
C15_UnsupportedLanguageRejected ==
    (/\ speech.op \in {"tts", "assist"}
     /\ speech.op = "assist" => speech.tts_calls # <<>>
     /\ speech.language_code \notin DOMAIN voice_map)
    => /\ speech.out = Http(400)
       /\ speech.tts_calls = <<>>

\* /assist was asked for a language outside the voice table and had the
\* provider synthesize the answer with the en-GB voice.
C15_AssistSpeaksDefaultVoice ==
    /\ speech.op = "assist"
    /\ speech.language_code = "de-DE"
    /\ Len(speech.tts_calls) = 1
    /\ speech.tts_calls[1].name = "en-GB-Neural2-C"
    /\ speech.out.kind = "ok"

\* C16: default_data_directory returns the first candidate, in the order
\* DATA_DIR override (when set), ../data/synthetic_data,
\* backend/synthetic_data, ../synthetic_data, that exists as a directory,
\* whatever later candidates are; when none does, it fails with an error that
\* lists every path searched.
C16_FirstExistingDirectoryWins ==
    data_dir # NoResp =>
       LET override == IF fs.env \in {None, Some("")} THEN <<>>
                       ELSE <<Resolve(Val(fs.env))>>
           order == override \o <<NEW_LOCATION, PACKAGE_LOCATION, LEGACY_LOCATION>>
           dirs == {i \in DOMAIN order : fs.kind[order[i]] = "dir"}
       IN  IF dirs = {}
           THEN /\ data_dir.kind = "raise"
                /\ data_dir.error = "FileNotFoundError"
                /\ \A i \in DOMAIN order :
                      \E j \in DOMAIN data_dir.searched :
                         data_dir.searched[j] = order[i]
           ELSE \E i \in dirs :
                   /\ \A j \in dirs : i <= j
                   /\ data_dir = Ok(order[i])

\* The override names a file and the preferred location is missing, so the
\* third candidate is returned although the fourth is a directory too.
C16_SkipsFileAndMissing ==
    /\ data_dir = Ok(PACKAGE_LOCATION)
    /\ fs.env = Some("~/data")
    /\ fs.kind["/home/user/data"] = "file"
    /\ fs.kind[NEW_LOCATION] = "missing"
    /\ fs.kind[LEGACY_LOCATION] = "dir"

\* C17: a card.update request for an existing customer who owns no product
\* whose type contains a card keyword ends in 404, without an 'ok' response
\* or a request id; when the customer owns a card product the response is
\* 'ok' with new_status 'Blocked by Customer' for block and 'Active' for
\* unblock.
C17_CardUpdateOutcome ==
    (/\ resp.op = "card.update"
     /\ \E i \in DOMAIN store.customers :
           store.customers[i].customer_id = resp.args.customer_id)
    => LET cards == {i \in DOMAIN store.products :
                       /\ store.products[i].customer_id = resp.args.customer_id
                       /\ \E k \in DOMAIN CARD_KEYWORDS :
                             Contains(Lower(store.products[i].product_type),
                                      CARD_KEYWORDS[k])}
       IN  IF cards = {}
           THEN resp.out = Http(404)
           ELSE /\ resp.out.kind = "ok"
                /\ resp.out.value.status = "ok"
                /\ resp.out.value.request_id[1] = "CARD-"
                /\ resp.args.action = "block"
                      => resp.out.value.new_status = BLOCKED
                /\ resp.args.action = "unblock"
                      => resp.out.value.new_status = ACTIVE

\* A customer who owns a product, but no card, asked for a block and got 404.
C17_NoCardNotFound ==
    /\ resp.op = "card.update"
    /\ resp.args.action = "block"
    /\ resp.out = Http(404)
    /\ \E i \in DOMAIN store.products :
          store.products[i].customer_id = resp.args.customer_id

\* C18: for an existing customer, list_all_products returns exactly the
\* products the customer owns in the open and closed tables together, each
\* product id at most once, in ascending order of (product_type, product_id);
\* a customer without products gets an empty result and no error.
C18_AllProductsOnce ==
    (/\ resp.op = "list_all_products"
     /\ \E i \in DOMAIN store.customers :
           store.customers[i].customer_id = resp.args.customer_id)
    => /\ resp.out.kind = "ok"
       /\ LET rows == resp.out.value
              combined == store.products \o store.products_closed
              owned == {combined[i].product_id : i \in {j \in DOMAIN combined : combined[j].customer_id = resp.args.customer_id}}
          IN  /\ {rows[i].product_id : i \in DOMAIN rows} = owned
              /\ \A i, j \in DOMAIN rows :
                    rows[i].product_id = rows[j].product_id => i = j
              /\ \A i, j \in DOMAIN rows :
                    i < j => ~ProductLess(rows[j], rows[i])

\* The listing names one product id twice: once as the open table has it and
\* once with the status of the closed table.
C18_ProductListedTwice ==
    /\ resp.op = "list_all_products"
    /\ resp.out.kind = "ok"
    /\ Len(resp.out.value) = 2
    /\ resp.out.value[1].product_id = resp.out.value[2].product_id
    /\ resp.out.value[1].status # resp.out.value[2].status

\* C19: a contact.update request that provides none of email, phone and
\* address (no value, or an empty one) is rejected with 400 and gets no
\* ticket id; a request for an existing customer that provides at least one
\* of them returns status 'ok' with a ticket id and a 'changed' map holding
\* exactly the provided fields with the provided values.
C19_ContactUpdateOutcome ==
    resp.op = "contact.update" =>
       LET given == [k \in {"email", "phone", "address"} |-> resp.args[k]]
           provided == {k \in DOMAIN given : given[k] \notin {None, Some(<<>>)}}
           known == \E i \in DOMAIN store.customers :
                       store.customers[i].customer_id = resp.args.customer_id
       IN  /\ provided = {} => resp.out = Http(400)
           /\ (provided # {} /\ known) =>
                 /\ resp.out.kind = "ok"
                 /\ resp.out.value.status = "ok"
                 /\ resp.out.value.ticket_id[1] = "TICKET-"
                 /\ DOMAIN resp.out.value.changed = provided
                 /\ \A k \in provided :
                       resp.out.value.changed[k] = Val(given[k])

\* A request with an empty email and a phone number was accepted, and the
\* phone number alone is reported as changed.
C19_OnlyPhoneChanged ==
    /\ resp.op = "contact.update"
    /\ resp.args.email = Some(<<>>)
    /\ resp.args.address = None
    /\ resp.out.kind = "ok"
    /\ DOMAIN resp.out.value.changed = {"phone"}

\* C20: the intent-to-payload table has an entry, with one operation and one
\* payload shape, for exactly the intents of the taxonomy that start_convo
\* ends neither as aborted ("Something else") nor as informational; so a
\* continue_convo called with the intent of a conversation that start_convo
\* let through never fails for lack of a mapping.
C20_MappingTotal ==
    LET through == INTENTS \ ({"Something else"} \cup INFORMATIONAL)
    IN  /\ DOMAIN payload_mapping = through
        /\ \A i \in through :
              /\ payload_mapping[i].api \in
                    {"/intent/balances.get", "/intent/card.update",
                     "/intent/customer.lookup", "/intent/transactions.filter"}
              /\ payload_mapping[i].payload # {}
        /\ (/\ chat_out.op = "continue_convo"
            /\ convo # None
            /\ Val(convo).intent \in {Some(i) : i \in through}
            /\ chat_out.args.intent = Val(convo).intent)
           => chat_out.out # Raise("AttributeError")

\* A conversation classified as "Block or unblock or card" without
\* authentication went on to slot filling and the turn produced a reply.
C20_CardIntentFillsSlots ==
    /\ chat_out.op = "continue_convo"
    /\ convo # None
    /\ Val(convo).intent = Some("Block or unblock or card")
    /\ Val(convo).auth_required = Some(FALSE)
    /\ chat_out.args.intent = Val(convo).intent
    /\ chat_out.out.kind = "ok"

\* C21: every row of transactions.csv appears exactly once in the loaded
\* ledger, also when its product id is listed in both product tables or under
\* different customer ids, so product_balances[p] is the signed sum over the
\* source rows of p, each counted once.
C21_EachTransactionOnce ==
    store # NoStore =>
       /\ Len(store.transactions) = Len(csv.transactions)
       /\ \A t \in DOMAIN csv.transactions :
             Cardinality({i \in DOMAIN store.transactions :
                            store.transactions[i].transaction_id
                               = csv.transactions[t].transaction_id}) = 1
       /\ \A p \in DOMAIN store.product_balances :
             LET source == SelectSeq(csv.transactions,
                                     LAMBDA r : AsTypeStr(r.product_id) = p)
             IN  store.product_balances[p]
                    = Sum([i \in DOMAIN source |->
                             LET amount == IF source[i].amount = None THEN 0
                                           ELSE Val(source[i].amount)
                             IN  IF Lower(source[i].transaction_type) = CREDIT
                                 THEN amount ELSE 0 - amount])

\* Product P1 is open under C1 and listed as closed under C2; transaction T1
\* stands in the ledger once for each, and the balance of P1 counts it twice.
C21_TransactionDoubled ==
    /\ store # NoStore
    /\ \E i, j \in DOMAIN store.transactions :
          /\ i # j
          /\ store.transactions[i].transaction_id = "T1"
          /\ store.transactions[j].transaction_id = "T1"
          /\ store.transactions[i].customer_id = "C1"
          /\ store.transactions[j].customer_id = "C2"
    /\ Cardinality({t \in DOMAIN csv.transactions : csv.transactions[t].product_id = "P1"}) = 1
    /\ store.product_balances["P1"] = 200

\* C22: a continue_convo call that reaches the model appends the user's
\* utterance to chat_history exactly once, whether the reply streams in one
\* chunk, several or none; a turn whose reply does not complete the dialogue
\* grows the history by one user entry followed by one model entry.
C22_UtteranceAppendedOnce ==
    [][(/\ chat_out'.op = "continue_convo"
        /\ chat_out'.out # Raise("AttributeError")) =>
          LET added == SubSeq(chat_history', Len(chat_history) + 1,
                              Len(chat_history'))
              asked == SelectSeq(added, LAMBDA e : e.role = "user")
              reply == JoinChunks(chat_out'.stream)
              user_reply == chat_out'.args.user_reply
          IN  /\ SubSeq(chat_history', 1, Len(chat_history)) = chat_history
              /\ asked = <<[role |-> "user", text |-> user_reply]>>
              /\ ~Contains(reply, COMPLETION_PHRASE) =>
                    added = <<[role |-> "user", text |-> user_reply],
                              [role |-> "model", text |-> reply]>>
      ]_vars

\* A reply that streamed in two chunks left the same utterance in
\* chat_history twice, once before each chunk.
C22_UtteranceAppendedPerChunk ==
    /\ chat_out.op = "continue_convo" /\ chat_out.out.kind = "ok"
    /\ chat_out.stream = <<QUESTIONS, QUESTIONS>>
    /\ Len(chat_history) >= 4
    /\ SubSeq(chat_history, Len(chat_history) - 3, Len(chat_history))
          = <<[role |-> "user", text |-> chat_out.args.user_reply],
              [role |-> "model", text |-> QUESTIONS],
              [role |-> "user", text |-> chat_out.args.user_reply],
              [role |-> "model", text |-> QUESTIONS]>>

\* C23: once end_convo is true, a further continue_convo call leaves
\* chat_history unchanged; and a conversation begun with start_convo starts
\* with end_convo false.
C23_NoTurnsAfterCompletion ==
    [][/\ (end_convo = TRUE /\ chat_out'.op = "continue_convo")
             => chat_history' = chat_history
       /\ (chat_out'.op = "start_convo" /\ chat_out'.out.kind = "ok")
             => end_convo' = FALSE
      ]_vars

\* start_convo has begun a new conversation, its history holding the query
\* and the reply only, while end_convo is still true from the one before.
C23_CompletionCarriedOver ==
    /\ chat_out.op = "start_convo"
    /\ chat_out.out.kind = "ok"
    /\ Len(chat_history) = 2
    /\ chat_history[1] = [role |-> "user", text |-> QUERY]
    /\ end_convo = TRUE

\* C24: when the classified intent is one of the five payload-bearing
\* intents, start_convo returns the customer-facing reply together with the
\* classified intent object, whether auth_required is true or false.
C24_ReplyAndIntentReturned ==
    (/\ chat_out.op = "start_convo"
     /\ chat_out.out.kind = "ok"
     /\ Val(convo).intent \in {Some(i) : i \in DOMAIN payload_mapping})
    => /\ chat_out.out.value[1] = Some(chat_history[2].text)
       /\ chat_out.out.value[3] = convo

\* A balance query that needs no authentication: start_convo put the reply
\* with its questions into chat_history and returned neither it nor the
\* intent.
C24_NothingReturnedWithoutAuth ==
    /\ chat_out.op = "start_convo"
    /\ convo # None
    /\ Val(convo).intent = Some("Query for their account balance")
    /\ Val(convo).auth_required = Some(FALSE)
    /\ Val(convo).questions = Some(QUESTIONS)
    /\ chat_history[2].role = "model"
    /\ chat_out.out = Ok(<<None, None, None>>)

\* C25: appointment.create for an existing customer proposes, when no slot is
\* given, the six slots at 10:00 and 14:00 of the next three days in ascending
\* order with status 'pending_confirmation'; with a slot it answers
\* 'confirmed' if the slot is one of those currently proposed and rejects with
\* 400 otherwise; the proposals never shrink, whatever was confirmed before.
C25_ProposeThenConfirm ==
    (/\ resp.op = "appointment.create"
     /\ \E i \in DOMAIN store.customers :
           store.customers[i].customer_id = resp.args.customer_id)
    => LET today == resp.args.today
           slot == resp.args.slot
           proposed == <<[day |-> today + 1, hour |-> 10],
                         [day |-> today + 1, hour |-> 14],
                         [day |-> today + 2, hour |-> 10],
                         [day |-> today + 2, hour |-> 14],
                         [day |-> today + 3, hour |-> 10],
                         [day |-> today + 3, hour |-> 14]>>
           offered == \E i \in DOMAIN proposed : slot = Some(proposed[i])
       IN  /\ slot = None =>
                 resp.out = Ok([status |-> "pending_confirmation",
                                slots |-> proposed, confirmed |-> None])
           /\ (slot # None /\ offered) =>
                 resp.out = Ok([status |-> "confirmed", slots |-> proposed,
                                confirmed |-> slot])
           /\ (slot # None /\ ~offered) => resp.out = Http(400)

\* A slot of the day after tomorrow was confirmed, and the answer still lists
\* it among the six proposals.
C25_ConfirmedSlotStillProposed ==
    /\ resp.op = "appointment.create"
    /\ resp.out.kind = "ok"
    /\ resp.out.value.status = "confirmed"
    /\ resp.args.slot = Some([day |-> resp.args.today + 2, hour |-> 10])
    /\ resp.out.value.slots[3] = Val(resp.out.value.confirmed)
    /\ Len(resp.out.value.slots) = 6

====
